---------------------------- MODULE Spec2Model ----------------------------
(***************************************************************************)
(* A model of the three programs of the repository: the position relay     *)
(* server (src/src/bin/server.rs), the raylib client's network bridge      *)
(* (src/src/sketch.rs) and the UDP client's network tasks                  *)
(* (src/dumb_client.rs).  A run is a run of one of them: prog says which.  *)
(*                                                                         *)
(* Server: one thread per accepted connection runs handle_client; each     *)
(* session spawns a writer thread that drains the session's mpsc channel   *)
(* onto the socket.  The registry (SharedState) is guarded by one mutex:    *)
(* the two critical sections that walk a map (the snapshot, the copy of    *)
(* the Senders) take the lock in one step and copy and release in the      *)
(* next, the others take it, change an entry and release it in one step.   *)
(* A step of a thread is one critical section or one channel operation,    *)
(* together with the thread's own reads and writes of its socket that      *)
(* come before or after it (no other thread sees those).  send_direct     *)
(* drops the result of its write, so what it writes is recorded as         *)
(* written; a write of the writer thread succeeds or fails.                *)
(*                                                                         *)
(* Clients: a run follows one of the two pipelines of a client, flow says  *)
(* which: the lines or datagrams of the server on their way to the         *)
(* application, or the messages of the application on their way out.       *)
(***************************************************************************)
EXTENDS Naturals, Sequences, FiniteSets

\* Number of connections the listener accepts in a run.
MaxClients == 2

\* Number of Position updates the clients send in a run, all connections
\* together.
MaxUpdates == 2

Sessions == 1 .. MaxClients

\* The coordinates clients report: x and y differ, so that a swap shows.
PosValues == {[x |-> 0, y |-> 1], [x |-> 5, y |-> 6]}

\* Number of lines the server sends the raylib client in a run.
MaxLines == 3

\* ArrayQueue::new(1000): the capacity of INCOMING_MESSAGE_QUEUE.
IncomingCapacity == 1000

\* ArrayQueue::new(1000): the capacity of OUTBOUND_MESSAGE_QUEUE.
OutboundCapacity == 1000

\* mpsc::sync_channel(16): the capacity of the raylib client's outgoing
\* channel.
OutgoingCapacity == 16

\* Number of frames the raylib client steps through in a run: one more than
\* the outgoing channel holds.
MaxTicks == 17

\* The pipelines of a client a run may follow: server to application, or
\* application to server.  The two share no state.
Flows == {"inbound", "outbound"}

Programs == {"server", "sketch", "dumb_client"}

VARIABLES
    prog,            \* the program that runs
    flow,            \* the pipeline of the client the run follows; "relay"
                     \* for the server
    next_client_id,  \* main: the AtomicU32 counter
    accepted,        \* main: number of connections accepted so far
    client_id,       \* client_id[s]: the id handle_client of session s was given
    pc,              \* pc[s]: where session s's thread is in handle_client
    outcome,         \* outcome[s]: what handle_client returned: "none" yet,
                     \* "ok", or the error: "try_clone_error", "io_error",
                     \* "invalid_data"
    clients,         \* SharedState.clients: id -> session whose Sender is stored
    positions,       \* SharedState.positions: id -> PlayerPos
    chan,            \* chan[s]: messages queued in session s's mpsc channel
    writer,          \* writer[s]: "none" | "running" | "failed" | "done"
    payload,         \* payload[s]: the message broadcast_json is sending
    recipients,      \* recipients[s]: the Sender clones broadcast_json has yet to use
    wire,            \* wire[s]: what has been written to session s's socket
    updates,         \* Position updates read so far, all sessions together
    registered,      \* history: the sessions that have run state.clients.insert
    unregistered,    \* history: the sessions that have run state.clients.remove
    lock,            \* the session whose thread holds the Mutex of SharedState,
                     \* 0 when it is free
    processed,       \* history: processed[s], the positions session s has
                     \* stored, in the order of its read loop
    direct,          \* history: direct[s], how many messages send_direct has
                     \* written to session s's socket
    reader,          \* sketch: the reader thread: "off", "running", or how
                     \* it ended: "eof", "io_error", "invalid_data"
    incoming,        \* sketch: what is queued in the incoming channel
    player_id,       \* sketch: ClientState.player_id, 0 for None
    remote_players,  \* sketch: ClientState.remote_players, id -> position
    lines,           \* sketch: lines read so far
    outgoing,        \* sketch: what is buffered in the outgoing sync_channel
    ticks,           \* sketch: calls of step() so far
    tx,              \* sketch: the writer thread, "off" | "running" | "failed"
    rx_task,         \* dumb_client: receive_incoming_messages, "off" | "running" | "ended"
    INCOMING_MESSAGE_QUEUE,  \* dumb_client: the ArrayQueue of decoded messages
    OUTBOUND_MESSAGE_QUEUE,  \* dumb_client: the ArrayQueue main pushes onto
    tx_task          \* dumb_client: transmit_outbound_messages, "off" | "running" | "ended"

serverVars == <<next_client_id, accepted, client_id, pc, outcome, clients,
                positions, chan, writer, payload, recipients, wire, updates,
                registered, unregistered, lock, processed, direct>>

sketchTxVars == <<outgoing, ticks, tx>>

sketchVars == <<reader, incoming, player_id, remote_players, lines,
                sketchTxVars>>

dumbTxVars == <<OUTBOUND_MESSAGE_QUEUE, tx_task>>

dumbVars == <<rx_task, INCOMING_MESSAGE_QUEUE, dumbTxVars>>

vars == <<prog, flow, serverVars, sketchVars, dumbVars>>

\* What a step of the server leaves alone.
clientVars == <<prog, flow, sketchVars, dumbVars>>

-----------------------------------------------------------------------------
(* Messages and maps *)

\* A faulty variant of Welcome: the id is not the connection's.
WelcomeOther(id) == [type |-> "Welcome", id |-> id + 1]

Welcome(id) == [type |-> "Welcome", id |-> id]

Position(id, p) == [type |-> "Position", id |-> id, x |-> p.x, y |-> p.y]

PlayerLeft(id) == [type |-> "PlayerLeft", id |-> id]

NoMessage == [type |-> "None"]

EmptyMap == [k \in {} |-> 0]

\* HashMap::insert: the entry of key k is set, an entry it had is replaced.
MapInsert(m, k, v) == [i \in (DOMAIN m) \cup {k} |-> IF i = k THEN v ELSE m[i]]

\* HashMap::remove: nothing happens when k is not a key.
MapRemove(m, k) == [i \in (DOMAIN m) \ {k} |-> m[i]]

-----------------------------------------------------------------------------
(* The pure parts of the code *)

\* A faulty variant of FetchAdd: the counter is read and not advanced.
FetchOnly(n) == n

\* AtomicU32::fetch_add(1): the counter after the call.  The counter wraps
\* at 2^32, which is past TLC's integers and past any run modelled here.
FetchAdd(n) == n + 1

\* A faulty variant of SnapshotPositions: the test of the filter is inverted.
SnapshotOnlySelf(pos, new_client_id) ==
    [id \in (DOMAIN pos) \cap {new_client_id} |-> pos[id]]

\* send_existing_positions: the filter_map over state.positions.
SnapshotPositions(pos, new_client_id) ==
    [id \in (DOMAIN pos) \ {new_client_id} |-> pos[id]]

\* A faulty variant of Recipients: the test of the filter is inverted.
RecipientsOnlyExcluded(cl, exclude_id) ==
    {cl[id] : id \in (DOMAIN cl) \cap {exclude_id}}

\* A faulty variant of Recipients: the filter that leaves out exclude_id is missing.
RecipientsAll(cl, exclude_id) == {cl[id] : id \in DOMAIN cl}

\* broadcast_json: the filter_map over state.clients; the result is the set
\* of channels (sessions) a Sender clone was taken of.
Recipients(cl, exclude_id) ==
    {cl[id] : id \in (DOMAIN cl) \ {exclude_id}}

\* A faulty variant of RemoveClient: the teardown forgets the clients map.
KeepClient(cl, id) == cl

\* The teardown's critical section, on each of the two maps.
RemoveClient(cl, id) == MapRemove(cl, id)

\* A faulty variant of RemovePosition: the teardown forgets the positions map.
KeepPosition(pos, id) == pos

RemovePosition(pos, id) == MapRemove(pos, id)

\* A faulty variant of Release: the MutexGuard outlives its block.
Retain(s) == s

\* The end of a block { let state = shared.lock()...; ... }: the MutexGuard
\* of the thread of session s goes out of scope, the mutex is free.
Release(s) == 0

\* A faulty variant of ChannelSend: the message jumps the queue.
ChannelSendFront(q, m) == <<m>> \o q

\* Sender::send on a channel whose Receiver exists: the message is queued
\* behind those already there.
ChannelSend(q, m) == Append(q, m)

\* A faulty variant of RxOpen: a send never finds the Receiver gone.
RxAlways(s) == TRUE

\* The Receiver of session s's channel exists: from mpsc::channel() until the
\* writer thread that owns it ends.
RxOpen(s) ==
    /\ pc[s] \notin {"idle", "start"}
    /\ writer[s] \in {"none", "running"}
    /\ ~(pc[s] = "done" /\ writer[s] = "none")

\* A faulty variant of Senders: handle_client keeps a Sender of its own.
SendersKept(s) == {<<"handle_client", s>>}

\* The Senders of session s's channel that exist: the registry's and the
\* clones in-flight broadcasts hold.
Senders(s) ==
    {<<"registry", id>> : id \in {i \in DOMAIN clients : clients[i] = s}}
        \cup {<<"broadcast", t>> : t \in {u \in Sessions : s \in recipients[u]}}

\* The writer thread's writeln! and flush succeed or fail.
WriteOutcomes == {TRUE, FALSE}

\* The orders a HashMap may yield the keys S in.
Orders(S) ==
    {o \in [1 .. Cardinality(S) -> S] : \A i, j \in DOMAIN o : i # j => o[i] # o[j]}

-----------------------------------------------------------------------------
Init ==
    /\ prog \in Programs
    /\ next_client_id = 1
    /\ accepted = 0
    /\ client_id = [s \in Sessions |-> 0]
    /\ pc = [s \in Sessions |-> "idle"]
    /\ outcome = [s \in Sessions |-> "none"]
    /\ clients = EmptyMap
    /\ positions = EmptyMap
    /\ chan = [s \in Sessions |-> <<>>]
    /\ writer = [s \in Sessions |-> "none"]
    /\ payload = [s \in Sessions |-> NoMessage]
    /\ recipients = [s \in Sessions |-> {}]
    /\ wire = [s \in Sessions |-> <<>>]
    /\ updates = 0
    /\ registered = {}
    /\ unregistered = {}
    /\ lock = 0
    /\ processed = [s \in Sessions |-> <<>>]
    /\ direct = [s \in Sessions |-> 0]
    /\ flow \in IF prog = "server" THEN {"relay"} ELSE Flows
    /\ reader = IF prog = "sketch" /\ flow = "inbound" THEN "running" ELSE "off"
    /\ incoming = <<>>
    /\ player_id = 0
    /\ remote_players = EmptyMap
    /\ lines = 0
    /\ outgoing = <<>>
    /\ ticks = 0
    /\ tx = IF prog = "sketch" /\ flow = "outbound" THEN "running" ELSE "off"
    /\ rx_task = IF prog = "dumb_client" /\ flow = "inbound"
                 THEN "running" ELSE "off"
    /\ INCOMING_MESSAGE_QUEUE = <<>>
    /\ OUTBOUND_MESSAGE_QUEUE = <<>>
    /\ tx_task = IF prog = "dumb_client" /\ flow = "outbound"
                 THEN "running" ELSE "off"

-----------------------------------------------------------------------------
(* main *)

\* listener.incoming() yields a stream: fetch_add, thread::spawn.
Accept(s) ==
    /\ prog = "server"
    /\ accepted < MaxClients
    /\ s = accepted + 1
    /\ accepted' = accepted + 1
    /\ client_id' = [client_id EXCEPT ![s] = next_client_id]
    /\ next_client_id' = FetchAdd(next_client_id)
    /\ pc' = [pc EXCEPT ![s] = "start"]
    /\ UNCHANGED <<outcome, clients, positions, chan, writer, payload,
                   recipients, wire, updates, registered, unregistered,
                   lock, processed, direct, clientVars>>

-----------------------------------------------------------------------------
(* handle_client *)

\* stream.try_clone()? fails: handle_client returns the error.
TryCloneFail(s) ==
    /\ pc[s] = "start"
    /\ pc' = [pc EXCEPT ![s] = "done"]
    /\ outcome' = [outcome EXCEPT ![s] = "try_clone_error"]
    /\ UNCHANGED <<next_client_id, accepted, client_id, clients, positions,
                   chan, writer, payload, recipients, wire, updates,
                   registered, unregistered, lock, processed,
                   direct, clientVars>>

\* mpsc::channel(), state.clients.insert(client_id, tx) under the lock, then
\* send_direct(&mut write_stream, Welcome { id }).
Register(s) ==
    /\ pc[s] = "start"
    /\ lock = 0
    /\ lock' = Release(s)
    /\ clients' = MapInsert(clients, client_id[s], s)
    /\ wire' = [wire EXCEPT ![s] = Append(@, Welcome(client_id[s]))]
    /\ pc' = [pc EXCEPT ![s] = "snapshot"]
    /\ registered' = registered \cup {s}
    /\ direct' = [direct EXCEPT ![s] = @ + 1]
    /\ UNCHANGED <<next_client_id, accepted, client_id, outcome, positions,
                   chan, writer, payload, recipients, updates, unregistered,
                   processed, clientVars>>

\* send_existing_positions: shared.lock() returns the guard.
SnapshotLock(s) ==
    /\ pc[s] = "snapshot"
    /\ lock = 0
    /\ lock' = s
    /\ UNCHANGED <<next_client_id, accepted, client_id, pc, outcome, clients,
                   positions, chan, writer, payload, recipients, wire, updates,
                   registered, unregistered, processed,
                   direct, clientVars>>

\* send_existing_positions: the copy of state.positions under the lock, then
\* send_direct of each entry, in the order the HashMap gave them.  Then
\* thread::spawn of the writer, and the session goes on to its read loop.
SendExistingPositions(s) ==
    /\ pc[s] = "snapshot"
    /\ lock = s
    /\ lock' = Release(s)
    /\ LET snapshots == SnapshotPositions(positions, client_id[s]) IN
        \E order \in Orders(DOMAIN snapshots) :
            /\ wire' = [wire EXCEPT ![s] =
                           @ \o [i \in 1 .. Len(order) |->
                                    Position(order[i], snapshots[order[i]])]]
            /\ direct' = [direct EXCEPT ![s] = @ + Len(order)]
    /\ writer' = [writer EXCEPT ![s] = "running"]
    /\ pc' = [pc EXCEPT ![s] = "read"]
    /\ UNCHANGED <<next_client_id, accepted, client_id, outcome, clients,
                   positions, chan, payload, recipients, updates, registered,
                   unregistered, processed, clientVars>>

-----------------------------------------------------------------------------
(* handle_client: the read loop *)

\* read_line returns Ok(0), end of stream: break, and the teardown's critical
\* section, state.clients.remove and state.positions.remove; then the call
\* of broadcast_json with PlayerLeft.
ReadEof(s) ==
    /\ pc[s] = "read"
    /\ lock = 0
    /\ lock' = Release(s)
    /\ clients' = RemoveClient(clients, client_id[s])
    /\ positions' = RemovePosition(positions, client_id[s])
    /\ payload' = [payload EXCEPT ![s] = PlayerLeft(client_id[s])]
    /\ pc' = [pc EXCEPT ![s] = "broadcast"]
    /\ unregistered' = unregistered \cup {s}
    /\ UNCHANGED <<next_client_id, accepted, client_id, outcome, chan, writer,
                   recipients, wire, updates, registered, processed,
                   direct, clientVars>>

\* read_line returns Err(err): the ? operator returns it from handle_client.
\* The JoinHandle of the writer is dropped, the writer thread runs on.
ReadFail(s, err) ==
    /\ pc[s] = "read"
    /\ pc' = [pc EXCEPT ![s] = "done"]
    /\ outcome' = [outcome EXCEPT ![s] = err]
    /\ UNCHANGED <<next_client_id, accepted, client_id, clients, positions,
                   chan, writer, payload, recipients, wire, updates,
                   registered, unregistered, lock, processed,
                   direct, clientVars>>

\* The socket's read fails (a reset connection, say): read_line returns the
\* I/O error.
ReadErr(s) == ReadFail(s, "io_error")

\* The bytes up to the newline are not valid UTF-8: read_line returns an
\* error of kind InvalidData.
ReadInvalidUtf8(s) == ReadFail(s, "invalid_data")

\* read_line returns a line that is blank once trimmed: continue.
ReadBlank(s) ==
    /\ pc[s] = "read"
    /\ UNCHANGED vars

\* read_line returns a line serde_json::from_str rejects: eprintln, continue.
ReadBadMessage(s) ==
    /\ pc[s] = "read"
    /\ UNCHANGED vars

\* read_line returns a line that decodes to ClientMessage::Position { x, y }:
\* state.positions.insert under the lock, then the call of broadcast_json.
ReadPosition(s) ==
    /\ pc[s] = "read"
    /\ updates < MaxUpdates
    /\ updates' = updates + 1
    /\ lock = 0
    /\ lock' = Release(s)
    /\ \E p \in PosValues :
        /\ positions' = MapInsert(positions, client_id[s], p)
        /\ processed' = [processed EXCEPT ![s] = Append(@, p)]
        /\ payload' = [payload EXCEPT ![s] = Position(client_id[s], p)]
    /\ pc' = [pc EXCEPT ![s] = "broadcast"]
    /\ UNCHANGED <<next_client_id, accepted, client_id, outcome, clients,
                   chan, writer, recipients, wire, registered, unregistered,
                   direct, clientVars>>

-----------------------------------------------------------------------------
(* broadcast_json(&shared, Some(client_id), message) *)

\* Where handle_client goes on once broadcast_json has returned: the read
\* loop after a Position, writer.join() after the PlayerLeft of the teardown.
AfterBroadcast(s) == IF payload[s].type = "Position" THEN "read" ELSE "join"

\* broadcast_json: shared.lock() returns the guard.
BroadcastLock(s) ==
    /\ pc[s] = "broadcast"
    /\ lock = 0
    /\ lock' = s
    /\ UNCHANGED <<next_client_id, accepted, client_id, pc, outcome, clients,
                   positions, chan, writer, payload, recipients, wire, updates,
                   registered, unregistered, processed,
                   direct, clientVars>>

\* The copy of the Senders under the lock.  With nobody to send to, the
\* function returns at once.
BroadcastCopy(s) ==
    /\ pc[s] = "broadcast"
    /\ lock = s
    /\ lock' = Release(s)
    /\ LET r == Recipients(clients, client_id[s]) IN
        /\ recipients' = [recipients EXCEPT ![s] = r]
        /\ IF r = {}
           THEN /\ pc' = [pc EXCEPT ![s] = AfterBroadcast(s)]
                /\ payload' = [payload EXCEPT ![s] = NoMessage]
           ELSE /\ pc' = [pc EXCEPT ![s] = "send"]
                /\ UNCHANGED payload
    /\ UNCHANGED <<next_client_id, accepted, client_id, outcome, clients,
                   positions, chan, writer, wire, updates, registered,
                   unregistered, processed, direct, clientVars>>

\* One turn of the loop over the copy, whose order is the HashMap's:
\* tx.send(payload.clone()), whose error (the Receiver is gone) is ignored;
\* the clone is dropped.  After the last turn the function returns.
BroadcastSend(s) ==
    /\ pc[s] = "send"
    /\ \E r \in recipients[s] :
        /\ chan' = [chan EXCEPT ![r] = IF RxOpen(r) THEN ChannelSend(@, payload[s]) ELSE @]
        /\ recipients' = [recipients EXCEPT ![s] = @ \ {r}]
        /\ IF recipients[s] = {r}
           THEN /\ pc' = [pc EXCEPT ![s] = AfterBroadcast(s)]
                /\ payload' = [payload EXCEPT ![s] = NoMessage]
           ELSE UNCHANGED <<pc, payload>>
    /\ UNCHANGED <<next_client_id, accepted, client_id, outcome, clients,
                   positions, writer, wire, updates, registered, unregistered,
                   lock, processed, direct, clientVars>>

-----------------------------------------------------------------------------
(* handle_client: after the read loop *)

\* writer.join() returns once the writer thread has ended; Ok(()).
JoinWriter(s) ==
    /\ pc[s] = "join"
    /\ writer[s] \in {"failed", "done"}
    /\ pc' = [pc EXCEPT ![s] = "done"]
    /\ outcome' = [outcome EXCEPT ![s] = "ok"]
    /\ UNCHANGED <<next_client_id, accepted, client_id, clients, positions,
                   chan, writer, payload, recipients, wire, updates,
                   registered, unregistered, lock, processed,
                   direct, clientVars>>

-----------------------------------------------------------------------------
(* The writer thread *)

\* rx.recv() yields a message; writeln! and flush succeed, or one of them
\* fails and the ? operator ends the thread, which drops the Receiver and
\* what is queued in it.
WriterWrite(s) ==
    /\ writer[s] = "running"
    /\ chan[s] # <<>>
    /\ \E ok \in WriteOutcomes :
        /\ wire' = [wire EXCEPT ![s] = IF ok THEN Append(@, Head(chan[s])) ELSE @]
        /\ chan' = [chan EXCEPT ![s] = IF ok THEN Tail(@) ELSE <<>>]
        /\ writer' = [writer EXCEPT ![s] = IF ok THEN "running" ELSE "failed"]
    /\ UNCHANGED <<next_client_id, accepted, client_id, pc, outcome, clients,
                   positions, payload, recipients, updates, registered,
                   unregistered, lock, processed,
                   direct, clientVars>>

\* rx.recv() returns Err: the channel is empty and every Sender is dropped.
WriterExit(s) ==
    /\ writer[s] = "running"
    /\ chan[s] = <<>>
    /\ Senders(s) = {}
    /\ writer' = [writer EXCEPT ![s] = "done"]
    /\ UNCHANGED <<next_client_id, accepted, client_id, pc, outcome, clients,
                   positions, chan, payload, recipients, wire, updates,
                   registered, unregistered, lock, processed,
                   direct, clientVars>>

-----------------------------------------------------------------------------
(* sketch.rs: connect_network's reader thread and process_network_messages *)

\* The lines the server may send: every ServerMessage about the ids 1 and 2.
ServerMessages ==
    {Welcome(id) : id \in 1 .. 2}
        \cup {Position(id, p) : id \in 1 .. 2, p \in PosValues}
        \cup {PlayerLeft(id) : id \in 1 .. 2}

\* read_line returns Ok(0): break, the thread ends.
SketchReadEof ==
    /\ reader = "running"
    /\ reader' = "eof"
    /\ UNCHANGED <<prog, flow, serverVars, incoming, player_id,
                   remote_players, lines, sketchTxVars, dumbVars>>

\* read_line returns Err(_): break, the thread ends.
SketchReadFail(err) ==
    /\ reader = "running"
    /\ reader' = err
    /\ UNCHANGED <<prog, flow, serverVars, incoming, player_id,
                   remote_players, lines, sketchTxVars, dumbVars>>

\* The socket's read fails.
SketchReadErr == SketchReadFail("io_error")

\* The bytes up to the newline are not valid UTF-8.
SketchReadInvalidUtf8 == SketchReadFail("invalid_data")

\* read_line returns a line serde_json::from_str rejects: nothing is sent.
SketchReadBadMessage ==
    /\ reader = "running"
    /\ UNCHANGED vars

\* read_line returns a line that decodes to msg: incoming_tx.send(msg).
SketchReadMessage ==
    /\ reader = "running"
    /\ lines < MaxLines
    /\ lines' = lines + 1
    /\ \E msg \in ServerMessages : incoming' = Append(incoming, msg)
    /\ UNCHANGED <<prog, flow, serverVars, reader, player_id, remote_players,
                   sketchTxVars, dumbVars>>

\* A faulty variant of UpsertPosition: an entry that is there is kept.
InsertIfAbsent(rp, id, p) ==
    IF id \in DOMAIN rp THEN rp ELSE MapInsert(rp, id, p)

\* state.remote_players.insert(id, Vector2::new(x, y)).
UpsertPosition(rp, id, p) == MapInsert(rp, id, p)

\* ClientState::new, the fields the network changes.
NewClientState == [player_id |-> 0, remote_players |-> EmptyMap]

\* The body of process_network_messages's loop, on the ClientState st.
ApplyMessage(st, message) ==
    CASE message.type = "Welcome" ->
            [st EXCEPT !.player_id = message.id]
      [] message.type = "Position" ->
            IF st.player_id = message.id
            THEN st
            ELSE [st EXCEPT !.remote_players =
                     UpsertPosition(@, message.id,
                                    [x |-> message.x, y |-> message.y])]
      [] message.type = "PlayerLeft" ->
            [st EXCEPT !.remote_players = MapRemove(@, message.id)]

\* process_network_messages: one turn of the while loop over try_recv().
ProcessNetworkMessage ==
    /\ prog = "sketch"
    /\ incoming # <<>>
    /\ incoming' = Tail(incoming)
    /\ LET st == ApplyMessage([player_id |-> player_id,
                               remote_players |-> remote_players],
                              Head(incoming)) IN
        /\ player_id' = st.player_id
        /\ remote_players' = st.remote_players
    /\ UNCHANGED <<prog, flow, serverVars, reader, lines, sketchTxVars,
                   dumbVars>>

-----------------------------------------------------------------------------
(* sketch.rs: step's try_send and connect_network's writer thread *)

\* The ClientMessage step() sends at its n-th call.  The player keeps
\* moving, so that no two frames send the same position: x stands for it.
ClientPosition(n) == [type |-> "Position", x |-> n, y |-> 0]

\* A faulty variant of TrySend: a full channel gives up its oldest message.
TrySendEvict(q, m) ==
    IF Len(q) < OutgoingCapacity THEN Append(q, m) ELSE Append(Tail(q), m)

\* SyncSender::try_send on a channel whose Receiver exists: the message is
\* buffered, or the channel is full and Err(Full(m)) hands it back.
TrySend(q, m) == IF Len(q) < OutgoingCapacity THEN Append(q, m) ELSE q

\* step(): process_network_messages finds nothing to apply, the position is
\* moved, then net.outgoing.try_send, whose result is dropped.  With the
\* Receiver gone try_send returns Err(Disconnected(m)).
StepTrySend ==
    /\ prog = "sketch"
    /\ flow = "outbound"
    /\ ticks < MaxTicks
    /\ ticks' = ticks + 1
    /\ outgoing' = IF tx = "running"
                   THEN TrySend(outgoing, ClientPosition(ticks + 1))
                   ELSE outgoing
    /\ UNCHANGED <<prog, flow, serverVars, reader, incoming, player_id,
                   remote_players, lines, tx, dumbVars>>

\* The writer thread: outgoing_rx.recv() yields a message; writeln! and
\* flush succeed, or one of them fails: break, the thread ends and drops
\* the Receiver with what is buffered.
SketchWriterWrite ==
    /\ tx = "running"
    /\ outgoing # <<>>
    /\ \E ok \in WriteOutcomes :
        /\ outgoing' = IF ok THEN Tail(outgoing) ELSE <<>>
        /\ tx' = IF ok THEN "running" ELSE "failed"
    /\ UNCHANGED <<prog, flow, serverVars, reader, incoming, player_id,
                   remote_players, lines, ticks, dumbVars>>

-----------------------------------------------------------------------------
(* dumb_client.rs: receive_incoming_messages and process_message_queue *)

\* A faulty variant of ArrayPush: a full queue grows.
ArrayPushGrow(q, m, capacity) == Append(q, m)

\* ArrayQueue::push: Err(m) on a full queue, which stays as it is.
ArrayPush(q, m, capacity) == IF Len(q) < capacity THEN Append(q, m) ELSE q

\* The datagrams that decode: one message stands for all of them, the task
\* does not look into it.
DatagramMessages == {[type |-> "ChatMessage"]}

\* socket.recv fails: the ? operator ends the task.
DumbRecvErr ==
    /\ rx_task = "running"
    /\ rx_task' = "ended"
    /\ UNCHANGED <<prog, flow, serverVars, sketchVars, INCOMING_MESSAGE_QUEUE,
                   dumbTxVars>>

\* bincode::deserialize fails: eprintln, the loop goes on.
DumbReceiveBadMessage ==
    /\ rx_task = "running"
    /\ UNCHANGED vars

\* bincode::deserialize yields a message: ArrayQueue::push, which fails on a
\* full queue; the message is dropped then, and the loop goes on.
DumbReceiveMessage ==
    /\ rx_task = "running"
    /\ \E message \in DatagramMessages :
        INCOMING_MESSAGE_QUEUE' =
            ArrayPush(INCOMING_MESSAGE_QUEUE, message, IncomingCapacity)
    /\ UNCHANGED <<prog, flow, serverVars, sketchVars, rx_task, dumbTxVars>>

\* process_message_queue: one turn of the while loop over pop(), which
\* prints the message.
ProcessMessageQueue ==
    /\ prog = "dumb_client"
    /\ INCOMING_MESSAGE_QUEUE # <<>>
    /\ INCOMING_MESSAGE_QUEUE' = Tail(INCOMING_MESSAGE_QUEUE)
    /\ UNCHANGED <<prog, flow, serverVars, sketchVars, rx_task, dumbTxVars>>

-----------------------------------------------------------------------------
(* dumb_client.rs: main's loop and transmit_outbound_messages *)

\* The message main pushes at every turn of its loop.
ChatMessage == [type |-> "ChatMessage", message |-> "Hey Man!"]

\* One turn of main's loop: OUTBOUND_MESSAGE_QUEUE.push, eprintln when the
\* queue is full; process_message_queue finds nothing; step; sleep.
MainPush ==
    /\ prog = "dumb_client"
    /\ flow = "outbound"
    /\ OUTBOUND_MESSAGE_QUEUE' =
           ArrayPush(OUTBOUND_MESSAGE_QUEUE, ChatMessage, OutboundCapacity)
    /\ UNCHANGED <<prog, flow, serverVars, sketchVars, rx_task,
                   INCOMING_MESSAGE_QUEUE, tx_task>>

\* transmit_outbound_messages: pop() yields a message; socket.send succeeds,
\* or it fails and the ? operator ends the task.  SERVER_DISCONNECTED is
\* never set.
TransmitOutbound ==
    /\ tx_task = "running"
    /\ OUTBOUND_MESSAGE_QUEUE # <<>>
    /\ OUTBOUND_MESSAGE_QUEUE' = Tail(OUTBOUND_MESSAGE_QUEUE)
    /\ \E ok \in WriteOutcomes :
        tx_task' = IF ok THEN "running" ELSE "ended"
    /\ UNCHANGED <<prog, flow, serverVars, sketchVars, rx_task,
                   INCOMING_MESSAGE_QUEUE>>

-----------------------------------------------------------------------------
ServerNext ==
    \E s \in Sessions :
        \/ Accept(s)
        \/ TryCloneFail(s)
        \/ Register(s)
        \/ SnapshotLock(s)
        \/ SendExistingPositions(s)
        \/ ReadEof(s)
        \/ ReadErr(s)
        \/ ReadInvalidUtf8(s)
        \/ ReadBlank(s)
        \/ ReadBadMessage(s)
        \/ ReadPosition(s)
        \/ BroadcastLock(s)
        \/ BroadcastCopy(s)
        \/ BroadcastSend(s)
        \/ JoinWriter(s)
        \/ WriterWrite(s)
        \/ WriterExit(s)

SketchNext ==
    \/ SketchReadEof
    \/ SketchReadErr
    \/ SketchReadInvalidUtf8
    \/ SketchReadBadMessage
    \/ SketchReadMessage
    \/ ProcessNetworkMessage
    \/ StepTrySend
    \/ SketchWriterWrite

DumbNext ==
    \/ DumbRecvErr
    \/ DumbReceiveBadMessage
    \/ DumbReceiveMessage
    \/ ProcessMessageQueue
    \/ MainPush
    \/ TransmitOutbound

Next == ServerNext \/ SketchNext \/ DumbNext

Spec == Init /\ [][Next]_vars

\* The steps a thread of the server takes by itself; what read_line returns
\* is up to the peer, and so is a connection to accept.
SessionStep(s) ==
    \/ TryCloneFail(s)
    \/ Register(s)
    \/ SnapshotLock(s)
    \/ SendExistingPositions(s)
    \/ BroadcastLock(s)
    \/ BroadcastCopy(s)
    \/ BroadcastSend(s)
    \/ JoinWriter(s)

WriterStep(s) == WriterWrite(s) \/ WriterExit(s)

\* Every thread that can take a step takes one.
Fairness == \A s \in Sessions : WF_vars(SessionStep(s)) /\ WF_vars(WriterStep(s))

FairSpec == Spec /\ Fairness

-----------------------------------------------------------------------------
(* Properties *)

Range(q) == {q[i] : i \in DOMAIN q}

\* The sessions whose entry is in the registry's clients map.
InRegistry == registered \ unregistered

\* What session s's connection has been sent: written to its socket, or
\* queued in its channel.
Sent(s) == wire[s] \o chan[s]

\* The messages of kind type about id among those of the sequence q.
About(q, type, id) == {i \in DOMAIN q : q[i].type = type /\ q[i].id = id}

\* C1.  broadcast_json(shared, Some(e), msg) never puts msg in e's own
\* channel: no channel ever holds a message about its own connection, no
\* broadcast holds a Sender of its caller, a step of the send loop leaves
\* the caller's channel alone and queues the payload, once, at the end of
\* the channel of the recipient it turns to; and the Senders copied for a
\* Position update are those of every other connection in the registry.
C1_NoSelfEnqueue ==
    \A s \in Sessions :
        /\ s \notin recipients[s]
        /\ \A i \in DOMAIN chan[s] : chan[s][i].id # client_id[s]

C1_BroadcastStep ==
    \A s \in Sessions :
        /\ (pc[s] = "broadcast" /\ pc'[s] # "broadcast")
            => \/ recipients'[s] = InRegistry \ {s}
               \/ recipients'[s] = {} /\ InRegistry \ {s} = {}
        /\ (pc[s] = "send" /\ recipients'[s] # recipients[s])
            => /\ chan'[s] = chan[s]
               /\ \A r \in recipients[s] \ recipients'[s] :
                    RxOpen(r) => chan'[r] = Append(chan[r], payload[s])

C1_BroadcastExcludesSender == [][C1_NoSelfEnqueue' /\ C1_BroadcastStep]_vars

\* C1, witness: a has broadcast a Position update and is back in its read
\* loop; it sits in b's channel and nothing has come to a's.
C1_Witness ==
    \E a, b \in Sessions :
        /\ a # b
        /\ pc[a] = "read"
        /\ About(chan[b], "Position", client_id[a]) # {}
        /\ chan[a] = <<>>
        /\ wire[a] = <<Welcome(client_id[a])>>

\* The step of session s that reads the snapshot and sends it.
JoinStep(s) == pc[s] = "snapshot" /\ pc'[s] = "read"

\* What that step writes to the socket of s.
JoinEntries(s) == SubSeq(wire'[s], Len(wire[s]) + 1, Len(wire'[s]))

\* The ids of the other connections in the registry's clients map.
OtherRegistered(s) == (DOMAIN clients) \ {client_id[s]}

\* C2 as stated: a connection that joins while N others are registered is
\* sent exactly N snapshot entries, one for the id of each of them.
C2_OnePerRegistered ==
    [][\A s \in Sessions :
          JoinStep(s) =>
              LET e == JoinEntries(s) IN
                  /\ Len(e) = Cardinality(OtherRegistered(s))
                  /\ {e[i].id : i \in DOMAIN e} = OtherRegistered(s)
                  /\ \A i \in DOMAIN e : e[i].type = "Position"]_vars

\* C2, amended: a connection that joins is sent exactly one snapshot entry
\* for each other id that has an entry in the positions map, that is for
\* each other registered connection that has sent a Position so far, with
\* the position stored for it: no id twice, not its own id, and so at most N
\* entries when N others are registered.
C2_OnePerStoredPosition ==
    [][\A s \in Sessions :
          JoinStep(s) =>
              LET e == JoinEntries(s)
                  stored == (DOMAIN positions) \ {client_id[s]}
              IN  /\ Len(e) = Cardinality(stored)
                  /\ {e[i].id : i \in DOMAIN e} = stored
                  /\ \A i \in DOMAIN e :
                        e[i] = Position(e[i].id, positions[e[i].id])
                  /\ stored \subseteq OtherRegistered(s)
                  /\ Len(e) <= Cardinality(OtherRegistered(s))]_vars

\* C2, witness: s has joined and was sent a's position, which a has stored
\* and not yet broadcast: it came with the snapshot.
C2_Witness ==
    \E s, a \in Sessions :
        /\ s # a
        /\ pc[s] = "read"
        /\ pc[a] = "broadcast"
        /\ updates = 1
        /\ payload[a].type = "Position"
        /\ wire[s] = <<Welcome(client_id[s]), payload[a]>>

\* How many PlayerLeft notices about a have been sent to b.
CountLeft(b, a) == Cardinality(About(Sent(b), "PlayerLeft", client_id[a]))

\* b has been sent a Position of a, in its snapshot or by a broadcast: it
\* was in the registry while a was.
ToldAbout(b, a) == About(Sent(b), "Position", client_id[a]) # {}

\* The connection of a was closed under it, handle_client has seen it (the
\* end of the stream, or the I/O error of a reset) and has returned.
ClosedAbruptly(a) ==
    /\ a \in registered
    /\ pc[a] = "done"
    /\ outcome[a] \in {"ok", "io_error"}

\* C3.  Once the closed connection of a has been dealt with, the teardown
\* has run once: every connection that was there with a and is still in the
\* registry (its writer alive) has been sent exactly one PlayerLeft of a,
\* nobody has been sent two, and no connection that joins from now on is
\* sent a snapshot entry of a.
C3_LeftOnce ==
    \A a, b \in Sessions :
        /\ CountLeft(b, a) <= 1
        /\ (/\ ClosedAbruptly(a)
            /\ b \in InRegistry \ {a}
            /\ writer[b] = "running"
            /\ ToldAbout(b, a))
            => CountLeft(b, a) = 1

C3_NoSnapshotEntry ==
    \A a, d \in Sessions :
        (ClosedAbruptly(a) /\ JoinStep(d))
            => About(JoinEntries(d), "Position", client_id[a]) = {}

C3_OneDepartureNotice == [][C3_LeftOnce' /\ C3_NoSnapshotEntry]_vars

\* C4.  Both ways a read ends the session, the end of the stream and an
\* I/O error of read_line, lead to the teardown: the entries of the
\* connection leave both maps, PlayerLeft is about to be broadcast, and no
\* other session is touched.
C4_ReadEndTearsDown ==
    [][\A s \in Sessions :
          (ReadEof(s) \/ ReadErr(s)) =>
              /\ client_id[s] \notin DOMAIN clients'
              /\ client_id[s] \notin DOMAIN positions'
              /\ pc'[s] = "broadcast"
              /\ payload'[s] = PlayerLeft(client_id[s])
              /\ \A t \in Sessions \ {s} :
                    /\ pc'[t] = pc[t]
                    /\ writer'[t] = writer[t]
                    /\ t \in InRegistry => client_id[t] \in DOMAIN clients']_vars

\* C5.  When the writer thread of a session has ended on a failed write,
\* the teardown follows, whatever the read loop is waiting for: the session
\* is unregistered.
C5_EgressFailureTearsDown ==
    \A s \in Sessions : (writer[s] = "failed") ~> (s \in unregistered)

\* C6.  The clients map has as many entries as sessions have registered less
\* those that have unregistered: the entry of a session that has
\* unregistered is gone, the entry of one that has not is there and is its
\* own.
C6_RegistryCount ==
    /\ unregistered \subseteq registered
    /\ Cardinality(DOMAIN clients) = Cardinality(registered) - Cardinality(unregistered)
    /\ \A s \in unregistered : client_id[s] \notin DOMAIN clients
    /\ \A s \in InRegistry :
        /\ client_id[s] \in DOMAIN clients
        /\ clients[client_id[s]] = s

\* C6, witness: two sessions have registered, one of them has unregistered,
\* one entry is left.
C6_Witness ==
    /\ Cardinality(registered) = 2
    /\ Cardinality(unregistered) = 1
    /\ Cardinality(DOMAIN clients) = 1

\* C7.  Every id with an entry in the positions map has one in the clients
\* map.
C7_PositionsWithinClients == (DOMAIN positions) \subseteq (DOMAIN clients)

\* C7, witness: a connection that had stored a position has unregistered,
\* another that has stored one is still there.
C7_Witness ==
    \E a, b \in Sessions :
        /\ a \in unregistered
        /\ ToldAbout(b, a)
        /\ b \in InRegistry
        /\ client_id[b] \in DOMAIN positions

\* c has joined: it is in the registry, its snapshot has been sent and its
\* writer thread is alive.
Joined(c) ==
    /\ c \in InRegistry
    /\ pc[c] # "snapshot"
    /\ writer[c] = "running"

\* a is in the registry with a stored position and no broadcast of its own
\* under way.
Settled(a) ==
    /\ a \in InRegistry
    /\ client_id[a] \in DOMAIN positions
    /\ pc[a] \notin {"broadcast", "send"}

\* The last element of q that is a Position about id.
LastPosition(q, id) ==
    LET idx == About(q, "Position", id) IN
        q[CHOOSE i \in idx : \A j \in idx : j <= i]

\* C8.  A connection that joins misses no update that races with its join:
\* whenever c has joined and a, another connection, has no broadcast under
\* way, c has been sent the position stored for a, with its snapshot or by
\* a's broadcast, and it is the last Position of a that c has been sent.
C8_NoMissedUpdate ==
    \A a, c \in Sessions :
        (a # c /\ Joined(c) /\ Settled(a)) =>
            /\ ToldAbout(c, a)
            /\ LastPosition(Sent(c), client_id[a])
                   = Position(client_id[a], positions[client_id[a]])

\* C8, witness: c's snapshot held nothing of a; the update of a has reached
\* c by a's broadcast.
C8_Witness ==
    \E a, c \in Sessions :
        /\ a # c /\ Joined(c) /\ Settled(a)
        /\ wire[c] = <<Welcome(client_id[c])>>
        /\ chan[c] = <<Position(client_id[a], positions[client_id[a]])>>

\* C9.  A line or datagram that does not decode is dropped and the pipeline
\* reads on: in the server the session stays in its read loop and nothing
\* of the server changes; in the clients the receiving thread or task stays
\* alive and nothing is queued for the application.
C9_ServerDrops ==
    \A s \in Sessions :
        (ReadBadMessage(s) \/ ReadInvalidUtf8(s)) =>
            /\ pc'[s] = "read"
            /\ UNCHANGED serverVars

C9_SketchDrops ==
    (SketchReadBadMessage \/ SketchReadInvalidUtf8) =>
        /\ reader' = "running"
        /\ UNCHANGED <<incoming, player_id, remote_players>>

C9_DumbDrops ==
    DumbReceiveBadMessage =>
        /\ rx_task' = "running"
        /\ UNCHANGED INCOMING_MESSAGE_QUEUE

C9_UndecodableDropped == [][C9_ServerDrops /\ C9_SketchDrops /\ C9_DumbDrops]_vars

PosOf(m) == [x |-> m.x, y |-> m.y]

\* C11.  Reconciliation upserts: when process_network_messages applies a
\* Position about a remote id, the table holds that id with the position of
\* the message, whatever it held before, the other entries are as they
\* were, and applying the same message once more changes nothing.
C11_UpsertStep ==
    (ProcessNetworkMessage /\ Head(incoming).type = "Position"
                           /\ Head(incoming).id # player_id) =>
        LET m == Head(incoming) IN
            /\ DOMAIN remote_players' = (DOMAIN remote_players) \cup {m.id}
            /\ remote_players'[m.id] = PosOf(m)
            /\ \A i \in (DOMAIN remote_players) \ {m.id} :
                   remote_players'[i] = remote_players[i]
            /\ ApplyMessage([player_id |-> player_id',
                             remote_players |-> remote_players'], m)
                   = [player_id |-> player_id',
                      remote_players |-> remote_players']

C11_UpsertIdempotent == [][C11_UpsertStep]_vars

\* C11, witness: two lines have been read, the first has been applied and
\* has put a position in the table, the second is the same Position and is
\* about to be applied.
C11_Witness ==
    /\ prog = "sketch"
    /\ lines = 2
    /\ Len(incoming) = 1
    /\ incoming[1].type = "Position"
    /\ incoming[1].id \in DOMAIN remote_players
    /\ remote_players[incoming[1].id] = PosOf(incoming[1])

\* q2 is q, or q with one message put behind it.
SameOrOneMore(q, q2) ==
    \/ q2 = q
    \/ /\ Len(q2) = Len(q) + 1
       /\ SubSeq(q2, 1, Len(q)) = q

\* C12.  The application's push of an outbound message does not block and
\* does not overfill: the outgoing channel of the raylib client and the
\* outbound queue of the UDP client stay within their capacities; a frame
\* (a turn of main's loop) adds at most one message, behind those queued; on
\* a full queue it leaves the queue as it is; and the next frame can be
\* stepped whatever the queue holds.
C12_PushStep ==
    /\ Len(outgoing') <= OutgoingCapacity
    /\ Len(OUTBOUND_MESSAGE_QUEUE') <= OutboundCapacity
    /\ StepTrySend =>
        /\ SameOrOneMore(outgoing, outgoing')
        /\ Len(outgoing) = OutgoingCapacity => outgoing' = outgoing
        /\ ticks' = ticks + 1
    /\ MainPush =>
        /\ SameOrOneMore(OUTBOUND_MESSAGE_QUEUE, OUTBOUND_MESSAGE_QUEUE')
        /\ Len(OUTBOUND_MESSAGE_QUEUE) = OutboundCapacity =>
               OUTBOUND_MESSAGE_QUEUE' = OUTBOUND_MESSAGE_QUEUE
    /\ (prog = "sketch" /\ flow = "outbound" /\ ticks < MaxTicks) =>
           ENABLED StepTrySend
    /\ (prog = "dumb_client" /\ flow = "outbound") => ENABLED MainPush

C12_PushNeverBlocks == [][C12_PushStep]_vars

\* C12, witness: the raylib client has stepped through more frames than the
\* outgoing channel holds while nothing was written: the channel is full,
\* the first message is still at its head, the last one was dropped.
C12_Witness ==
    /\ ticks > OutgoingCapacity
    /\ Len(outgoing) = OutgoingCapacity
    /\ outgoing[1] = ClientPosition(1)
    /\ outgoing[OutgoingCapacity] = ClientPosition(OutgoingCapacity)

\* C13.  The inbound queues are bounded.  INCOMING_MESSAGE_QUEUE never holds
\* more than its capacity; the incoming channel of the raylib client has a
\* capacity as well, so that when the server sends more lines than fit and
\* the application drains none, lines are dropped: the channel never holds
\* every line of a run.
C13_InboundBounded ==
    /\ Len(INCOMING_MESSAGE_QUEUE) <= IncomingCapacity
    /\ Len(incoming) < MaxLines

\* C14.  A send of a broadcast onto a handle whose Receiver is gone (the
\* writer thread of the recipient has ended on a failed write) is ignored:
\* the turn of the loop uses up one copied handle r and no other; nothing is
\* queued for r when it is closed, the message is queued once behind r's
\* queue when it is not; no other queue changes; the handles left are sent
\* to in the turns that follow, and the session has no error and goes back
\* to its read loop, or to the join of its teardown, after the last one.
C14_SendStep ==
    \A s \in Sessions :
        BroadcastSend(s) =>
            \E r \in recipients[s] :
                /\ recipients'[s] = recipients[s] \ {r}
                /\ writer[r] = "failed" => chan'[r] = chan[r]
                /\ writer[r] = "running" => chan'[r] = Append(chan[r], payload[s])
                /\ \A t \in Sessions \ {r} : chan'[t] = chan[t]
                /\ outcome'[s] = "none"
                /\ pc'[s] = IF recipients'[s] = {} THEN AfterBroadcast(s) ELSE "send"

RECURSIVE PositionsAbout(_, _)
PositionsAbout(q, id) ==
    IF q = <<>> THEN <<>>
    ELSE IF Head(q).type = "Position" /\ Head(q).id = id
         THEN <<PosOf(Head(q))>> \o PositionsAbout(Tail(q), id)
         ELSE PositionsAbout(Tail(q), id)

\* v can be read off p from left to right: each element of v is an element
\* of p that is not before the one taken for the element of v before it.
RECURSIVE InOrderOf(_, _)
InOrderOf(v, p) ==
    IF v = <<>> THEN TRUE
    ELSE IF p = <<>> THEN FALSE
         ELSE IF Head(v) = Head(p) THEN InOrderOf(Tail(v), p)
              ELSE InOrderOf(v, Tail(p))

IsPrefix(q, q2) == Len(q) <= Len(q2) /\ SubSeq(q2, 1, Len(q)) = q

\* What has been queued on session c's channel and not been dropped: what
\* the writer thread has written, then what is queued.
Enqueued(c) == SubSeq(wire[c], direct[c] + 1, Len(wire[c])) \o chan[c]

\* What has been queued for a connection carries the updates of a sender in
\* the order the sender's session has stored them.
C15_SenderOrder ==
    \A a, c \in Sessions :
        a # c =>
            InOrderOf(PositionsAbout(Enqueued(c), client_id[a]), processed[a])

\* The writer thread writes what is queued from the head of the queue, and
\* what is queued is put behind: what the writer has written and what is
\* queued, taken together, only grow at the end, until a failed write drops
\* what is queued.
C15_EgressStep ==
    \A c \in Sessions :
        \/ IsPrefix(Enqueued(c), Enqueued(c)')
        \/ /\ writer[c] = "running"
           /\ writer'[c] = "failed"
           /\ wire'[c] = wire[c]

C16_HolderCopies == lock # 0 => pc[lock] \in {"snapshot", "broadcast"}

\* A turn of the send loop is taken without the lock; the steps that end
\* with send_direct writing to the socket (the Welcome after the insert,
\* the snapshot's entries after the copy) have released it by then.
C16_IoStep ==
    \A s \in Sessions :
        /\ BroadcastSend(s) => (lock # s /\ lock' # s)
        /\ (Register(s) \/ SendExistingPositions(s)) => lock' # s

\* C16.  No thread of the server holds the lock of the registry while it
\* writes to a socket or sends on a channel: the lock is held for the copy
\* only, and is released before the first write or send that follows.
C16_NoLockDuringIo == [][C16_HolderCopies' /\ C16_IoStep]_vars

\* C16, witness: a session is in the send loop of a broadcast while the
\* thread of another session holds the lock.
C16_Witness ==
    \E s, t \in Sessions :
        /\ s # t
        /\ pc[s] = "send"
        /\ recipients[s] # {}
        /\ lock = t

\* The socket of session s has been written one Welcome, which carries the
\* id of s and is the first message written to it.
WelcomeFirstOnce(s) ==
    /\ wire[s] # <<>>
    /\ wire[s][1].type = "Welcome"
    /\ wire[s][1].id = client_id[s]
    /\ \A i \in 2 .. Len(wire[s]) : wire[s][i].type # "Welcome"

\* No Welcome is queued on a channel or is the payload of a broadcast.
WelcomeNeverBroadcast ==
    \A s \in Sessions :
        /\ payload[s].type # "Welcome"
        /\ \A i \in 1 .. Len(chan[s]) : chan[s][i].type # "Welcome"

RECURSIVE ApplyAll(_, _)
ApplyAll(st, q) ==
    IF q = <<>> THEN st ELSE ApplyAll(ApplyMessage(st, Head(q)), Tail(q))

\* The remote-player table of a client that has applied q.
ClientTable(q) == ApplyAll(NewClientState, q).remote_players

\* C18.  No ghost players: on no connection's socket is a Position about an
\* id written after the PlayerLeft of that id, and so a client that applies
\* what it is sent in order does not have the id in its table after any
\* message that follows the PlayerLeft.
C18_NoGhostPlayers ==
    \A c \in Sessions :
        \A i \in 1 .. Len(wire[c]) :
            wire[c][i].type = "PlayerLeft" =>
                \A j \in i .. Len(wire[c]) :
                    /\ ~(wire[c][j].type = "Position" /\ wire[c][j].id = wire[c][i].id)
                    /\ wire[c][i].id \notin DOMAIN ClientTable(SubSeq(wire[c], 1, j))

\* C18, witness: a connection whose snapshot held the position of another
\* one has then been written the PlayerLeft of that one, and a client that
\* has applied both has an empty table.
C18_Witness ==
    \E a, c \in Sessions :
        /\ a # c
        /\ direct[c] = 2
        /\ Len(wire[c]) >= 3
        /\ wire[c][2].type = "Position" /\ wire[c][2].id = client_id[a]
        /\ wire[c][Len(wire[c])] = PlayerLeft(client_id[a])
        /\ ClientTable(wire[c]) = EmptyMap

\* C19.  A session that has read end-of-stream and has removed its entries
\* from the registry comes to its end: every Sender of its channel is
\* dropped, the writer thread leaves its loop, writer.join() returns and
\* handle_client returns Ok(()).
C19_SessionTerminates ==
    \A s \in Sessions :
        (s \in unregistered) ~> (pc[s] = "done" /\ outcome[s] = "ok")

\* C19, witness: a session waits in writer.join() for a writer thread that
\* is kept alive by the Sender a broadcast under way has copied.
C19_Witness ==
    \E s, t \in Sessions :
        /\ s \in unregistered
        /\ pc[s] = "join"
        /\ writer[s] = "running"
        /\ pc[t] = "send"
        /\ s \in recipients[t]

\* C20.  The relay and a client that applies what it is sent in order: the
\* server sends a connection no Position that carries the connection's own
\* id, neither in the snapshot nor by broadcast; the client has taken its id
\* from the Welcome before it applies anything else; and after each message
\* its table of remote players holds no entry for its own id.
C20_NoSelfInTable ==
    \A c \in Sessions :
        /\ \A i \in 1 .. Len(Sent(c)) :
               Sent(c)[i].type = "Position" => Sent(c)[i].id # client_id[c]
        /\ \A j \in 1 .. Len(wire[c]) :
               LET st == ApplyAll(NewClientState, SubSeq(wire[c], 1, j)) IN
                   /\ st.player_id = client_id[c]
                   /\ st.player_id \notin DOMAIN st.remote_players

\* C20, witness: a connection with a position of its own in the registry
\* has been written the position of another one, and a client that has
\* applied it has that one in its table and not itself.
C20_Witness ==
    \E a, c \in Sessions :
        /\ a # c
        /\ client_id[c] \in DOMAIN positions
        /\ DOMAIN ClientTable(wire[c]) = {client_id[a]}

=============================================================================
